---- MODULE Spec2Model ----
(***************************************************************************)
(* A model of the snowflake id generator: the bit layout (snowflake.rs,    *)
(* lib.rs), the blocking generator (generator.rs) and the cooperative      *)
(* generator (async_generator.rs).                                         *)
(*                                                                         *)
(* The generator is generic over a layout S: Snowflake.  The model         *)
(* instantiates a small layout (TIMESTAMP_BITS, MACHINE_ID_BITS,           *)
(* SEQUENCE_BITS below) in a machine word of WordBits bits, so that every  *)
(* field value, every overflow of the timestamp field and every rollover   *)
(* of the sequence is enumerated.  As in the shipped layout the three      *)
(* fields leave the top bit of the word free.                              *)
(***************************************************************************)
EXTENDS Integers, Naturals, Sequences, FiniteSets, TLC

(***************************************************************************)
(* Bounds of the model.                                                    *)
(***************************************************************************)
\* width of the machine word that stands for u64 / i64
WordBits == 5
\* clock readings range over 0..MaxClock (milliseconds)
MaxClock == 4
\* epochs given to with_epoch range over 0..MaxEpoch
MaxEpoch == 1
\* number of concurrent callers (threads or tasks)
NumProcs == 2
\* largest count given to next_id_bulk
MaxCount == 2
\* ids issued in one behaviour
MaxIssued == 3
\* longest string given to a parser
MaxStrLen == 3

(***************************************************************************)
(* The layout S and the constants of defs.rs.                              *)
(***************************************************************************)
TIMESTAMP_BITS == 2
MACHINE_ID_BITS == 1
SEQUENCE_BITS == 1
CLOCK_BACKWARDS_TOLERANCE_MS == 2
SNOWFLAKE_ID_EPOCH == 1

Procs == 1..NumProcs
Clock == 0..MaxClock
Epochs == 0..MaxEpoch

(***************************************************************************)
(* Machine arithmetic on a word of WordBits bits.                          *)
(***************************************************************************)
RECURSIVE Pow2(_)
Pow2(n) == IF n = 0 THEN 1 ELSE 2 * Pow2(n - 1)

Word == Pow2(WordBits)

\* wrapping to the unsigned word (u64)
Wrap(x) == x % Word

\* `x as i64` of an unsigned word
AsI64(u) == IF u >= Word \div 2 THEN u - Word ELSE u

\* `x as u64` of a signed word
AsU64(i) == i % Word

RECURSIVE BitAnd(_, _)
BitAnd(a, b) ==
    IF a = 0 \/ b = 0 THEN 0
    ELSE (a % 2) * (b % 2) + 2 * BitAnd(a \div 2, b \div 2)

RECURSIVE BitOr(_, _)
BitOr(a, b) ==
    IF a = 0 THEN b
    ELSE IF b = 0 THEN a
    ELSE (IF a % 2 = 1 \/ b % 2 = 1 THEN 1 ELSE 0) + 2 * BitOr(a \div 2, b \div 2)

BitNot(a) == Word - 1 - a

Shl(a, n) == Wrap(a * Pow2(n))

Shr(a, n) == a \div Pow2(n)

(***************************************************************************)
(* trait Snowflake (snowflake.rs) and impl Snowflake for SnowflakeId.      *)
(* An id is its i64 value.                                                 *)
(***************************************************************************)
timestamp_bits == TIMESTAMP_BITS

machine_id_bits == MACHINE_ID_BITS

sequence_bits == SEQUENCE_BITS

\* mutant: the timestamp is shifted over the sequence only
timestamp_shift_Short == sequence_bits

timestamp_shift == machine_id_bits + sequence_bits

timestamp_mask == Wrap(Shl(1, timestamp_bits) - 1)

machine_id_mask == Wrap(Shl(1, machine_id_bits) - 1)

sequence_mask == Wrap(Shl(1, sequence_bits) - 1)

valid_mask ==
    BitOr(BitOr(Shl(timestamp_mask, timestamp_shift),
                Shl(machine_id_mask, sequence_bits)),
          sequence_mask)

max_timestamp == AsI64(timestamp_mask)

max_machine_id == machine_id_mask

max_sequence == sequence_mask

\* mutant: the machine id is packed without its shift
from_component_parts_Unshifted(timestamp_offset, machine_id, sequence) ==
    AsI64(BitOr(BitOr(Shl(timestamp_offset, timestamp_shift), machine_id), sequence))

\* mutant: the machine id is left out of the id
from_component_parts_NoMachineId(timestamp_offset, machine_id, sequence) ==
    AsI64(BitOr(Shl(timestamp_offset, timestamp_shift), sequence))

from_component_parts(timestamp_offset, machine_id, sequence) ==
    AsI64(BitOr(BitOr(Shl(timestamp_offset, timestamp_shift),
                      Shl(machine_id, sequence_bits)),
                sequence))

\* Snowflake::id: the raw bit pattern
id_u64(x) == AsU64(x)

timestamp_of(x) == BitAnd(Shr(id_u64(x), timestamp_shift), timestamp_mask)

timestamp_with_epoch(x, epoch) == AsI64(timestamp_of(x)) + epoch

\* mutant: the machine id is extracted without its mask
machine_id_of_Unmasked(x) == Shr(id_u64(x), sequence_bits)

machine_id_of(x) == BitAnd(Shr(id_u64(x), sequence_bits), machine_id_mask)

sequence_of(x) == BitAnd(id_u64(x), sequence_mask)

is_valid(x) == BitAnd(id_u64(x), BitNot(valid_mask)) = 0

(***************************************************************************)
(* Text.  A string is a sequence of characters; Chars holds the ten        *)
(* digits, the two signs and one character that is neither.                *)
(***************************************************************************)
Digit == <<"0", "1", "2", "3", "4", "5", "6", "7", "8", "9">>

Chars == {Digit[d] : d \in 1..10} \cup {"-", "+", "x"}

Strings == UNION {[1..n -> Chars] : n \in 0..MaxStrLen}

I64_MIN == 0 - Word \div 2

I64_MAX == Word \div 2 - 1

U64_MAX == Word - 1

I64 == I64_MIN..I64_MAX

IsDigit(c) == \E d \in 1..10 : Digit[d] = c

to_digit(c) == (CHOOSE d \in 1..10 : Digit[d] = c) - 1

(***************************************************************************)
(* str::parse::<i64>, as from_str and visit_str call it: an optional sign, *)
(* then one digit or more, accumulated with overflow checks.               *)
(***************************************************************************)
Parsed(ok, v, e) == [ok |-> ok, value |-> v, err |-> e]

RECURSIVE ParseDigits(_, _, _, _)
ParseDigits(d, i, acc, neg) ==
    IF i > Len(d) THEN Parsed(TRUE, acc, "")
    ELSE IF ~IsDigit(d[i]) THEN Parsed(FALSE, 0, "invalid digit found in string")
    ELSE LET mul == acc * 10
             x == to_digit(d[i])
             r == IF neg THEN mul - x ELSE mul + x
         IN  IF r > I64_MAX
             THEN Parsed(FALSE, 0, "number too large to fit in target type")
             ELSE IF r < I64_MIN
             THEN Parsed(FALSE, 0, "number too small to fit in target type")
             ELSE ParseDigits(d, i + 1, r, neg)

parse_i64(s) ==
    IF Len(s) = 0 THEN Parsed(FALSE, 0, "cannot parse integer from empty string")
    ELSE IF Len(s) = 1 /\ s[1] \in {"+", "-"}
    THEN Parsed(FALSE, 0, "invalid digit found in string")
    ELSE IF s[1] \in {"+", "-"}
    THEN ParseDigits(Tail(s), 1, 0, s[1] = "-")
    ELSE ParseDigits(s, 1, 0, FALSE)

(***************************************************************************)
(* SnowflakeId (lib.rs): construction from an integer, FromStr, Display    *)
(* and serde.  A decoding gives Ok(id) or an error carrying its message;   *)
(* a message is the sequence of its parts.                                 *)
(***************************************************************************)
Decoded(ok, i, msg) == [ok |-> ok, id |-> i, msg |-> msg]

SnowflakeId_new(value) ==
    IF value < 0
    THEN Decoded(FALSE, 0, <<"InvalidId", "Snowflake ID cannot be negative">>)
    ELSE Decoded(TRUE, value, <<>>)

new_unchecked(value) == value

try_from(value) == SnowflakeId_new(value)

from_str(s) ==
    LET r == parse_i64(s)
    IN  IF ~r.ok THEN Decoded(FALSE, 0, <<"InvalidId", "Failed to parse: ", r.err>>)
        ELSE IF r.value < 0
        THEN Decoded(FALSE, 0, <<"InvalidId", "Snowflake ID cannot be negative">>)
        ELSE Decoded(TRUE, r.value, <<>>)

\* the decimal digits of a natural number
RECURSIVE Decimal(_)
Decimal(n) ==
    IF n < 10 THEN <<Digit[n + 1]>> ELSE Decimal(n \div 10) \o <<Digit[(n % 10) + 1]>>

\* mutant: the text is padded with a leading zero
to_string_Padded(v) == IF v < 0 THEN <<"-">> \o Decimal(0 - v) ELSE <<"0">> \o Decimal(v)

\* Display: write!(f, "{}", self.0)
to_string(v) == IF v < 0 THEN <<"-">> \o Decimal(0 - v) ELSE Decimal(v)

\* what a serializer is handed, and what a deserializer holds: a string or an integer
AsStr(s) == [str |-> TRUE, text |-> s, int |-> 0]

AsInt(n) == [str |-> FALSE, text |-> <<>>, int |-> n]

serialize(v, is_human_readable) == IF is_human_readable THEN AsStr(to_string(v)) ELSE AsInt(v)

\* mutant: an integer above i64::MAX is cast without the check
visit_u64_Unchecked(value) == Decoded(TRUE, new_unchecked(AsI64(value)), <<>>)

visit_u64(value) ==
    IF value > I64_MAX
    THEN Decoded(FALSE, 0, <<"custom", "snowflake id value exceeds i64::MAX">>)
    ELSE Decoded(TRUE, new_unchecked(AsI64(value)), <<>>)

visit_i64(value) ==
    IF value < 0
    THEN Decoded(FALSE, 0, <<"custom", "snowflake id cannot be negative">>)
    ELSE Decoded(TRUE, new_unchecked(value), <<>>)

visit_str(value) ==
    LET parsed == parse_i64(value)
    IN  IF ~parsed.ok THEN Decoded(FALSE, 0, <<"custom", "invalid snowflake id string">>)
        ELSE IF parsed.value < 0
        THEN Decoded(FALSE, 0, <<"custom", "snowflake id cannot be negative">>)
        ELSE Decoded(TRUE, new_unchecked(parsed.value), <<>>)

\* deserialize_any hands a string to visit_str, a non-negative integer to visit_u64
\* and a negative one to visit_i64
deserialize(input) ==
    IF input.str THEN visit_str(input.text)
    ELSE IF input.int >= 0 THEN visit_u64(input.int)
    ELSE visit_i64(input.int)

(***************************************************************************)
(* Outcomes of a call.  kind is one of                                     *)
(*   "None"     the call is in progress                                    *)
(*   "Ready"    Ok(SnowflakeOperation::Ready(id)), or the id next_id gave  *)
(*   "Pending"  Ok(SnowflakeOperation::Pending(wait))                      *)
(*   "Err"      Err(err), a typed SnowflakeError                           *)
(*   "Panic"    the call unwound with a panic; err is the condition        *)
(*   "Returned" next_id_bulk returned its list (kept in ids)               *)
(***************************************************************************)
Res(k, i, w, e) == [kind |-> k, id |-> i, wait |-> w, err |-> e]

NoRes == Res("None", 0, 0, "")

Ready(i) == Res("Ready", i, 0, "")

Pending(w) == Res("Pending", 0, w, "")

Err(e) == Res("Err", 0, 0, e)

Panic(e) == Res("Panic", 0, 0, e)

Returned == Res("Returned", 0, 0, "")

(***************************************************************************)
(* SnowflakeGenerator::try_next_id between taking the lock and returning:  *)
(* one step on the state (last, seq) with clock reading t, for a generator *)
(* with machine id m and epoch e.  The result is the outcome and the state *)
(* the step leaves behind.                                                 *)
(***************************************************************************)
StepOut(o, l, s) == [out |-> o, last_timestamp |-> l, sequence |-> s]

\* mutant: the largest offset of the timestamp field is refused too
TryStepMasked_OffByOne(t, m, e, seq) ==
    LET timestamp_offset == t - e
        masked_timestamp == BitAnd(AsU64(timestamp_offset), Shl(1, timestamp_bits) - 1)
    IN  IF timestamp_offset < 0 \/ timestamp_offset >= max_timestamp
        THEN StepOut(Err("TimestampOverflow"), t, seq)
        ELSE StepOut(Ready(from_component_parts(masked_timestamp, m, seq)), t, seq)

TryStepMasked(t, m, e, seq) ==
    LET timestamp_offset == t - e
        masked_timestamp == BitAnd(AsU64(timestamp_offset), Shl(1, timestamp_bits) - 1)
    IN  IF timestamp_offset < 0 \/ timestamp_offset > max_timestamp
        THEN StepOut(Err("TimestampOverflow"), t, seq)
        ELSE StepOut(Ready(from_component_parts(masked_timestamp, m, seq)), t, seq)

\* mutant: the step issues an id although the sequence wrapped to 0
TryStep_NoRollover(last, seq, t, m, e) ==
    IF t < last
    THEN LET drift == last - t
         IN  IF drift <= CLOCK_BACKWARDS_TOLERANCE_MS
             THEN StepOut(Pending(drift), last, seq)
             ELSE StepOut(Err("ClockMovedBackwards"), last, seq)
    ELSE IF t = last
    THEN TryStepMasked(t, m, e, BitAnd(seq + 1, max_sequence))
    ELSE TryStepMasked(t, m, e, 0)

\* mutant: the wrapped sequence is stored before Pending is returned
TryStep_PendingCommits(last, seq, t, m, e) ==
    IF t < last
    THEN LET drift == last - t
         IN  IF drift <= CLOCK_BACKWARDS_TOLERANCE_MS
             THEN StepOut(Pending(drift), last, seq)
             ELSE StepOut(Err("ClockMovedBackwards"), last, seq)
    ELSE IF t = last
    THEN LET next_seq == BitAnd(seq + 1, max_sequence)
         IN  IF next_seq = 0
             THEN StepOut(Pending(1), last, next_seq)
             ELSE TryStepMasked(t, m, e, next_seq)
    ELSE TryStepMasked(t, m, e, 0)

TryStep(last, seq, t, m, e) ==
    IF t < last
    THEN LET drift == last - t
         IN  IF drift <= CLOCK_BACKWARDS_TOLERANCE_MS
             THEN StepOut(Pending(drift), last, seq)
             ELSE StepOut(Err("ClockMovedBackwards"), last, seq)
    ELSE IF t = last
    THEN LET next_seq == BitAnd(seq + 1, max_sequence)
         IN  IF next_seq = 0
             THEN StepOut(Pending(1), last, seq)
             ELSE TryStepMasked(t, m, e, next_seq)
    ELSE TryStepMasked(t, m, e, 0)

(***************************************************************************)
(* AsyncSnowflakeGenerator::try_next_id, the same step written again in    *)
(* async_generator.rs.                                                     *)
(***************************************************************************)
AsyncTryStepMasked(t, m, e, seq) ==
    LET timestamp_offset == t - e
        masked_timestamp == BitAnd(AsU64(timestamp_offset), Shl(1, timestamp_bits) - 1)
    IN  IF timestamp_offset < 0 \/ timestamp_offset > max_timestamp
        THEN StepOut(Err("TimestampOverflow"), t, seq)
        ELSE StepOut(Ready(from_component_parts(masked_timestamp, m, seq)), t, seq)

\* mutant: a second id of the same millisecond keeps the sequence it found
AsyncTryStep_SameSequence(last, seq, t, m, e) ==
    IF t < last
    THEN LET drift == last - t
         IN  IF drift <= CLOCK_BACKWARDS_TOLERANCE_MS
             THEN StepOut(Pending(drift), last, seq)
             ELSE StepOut(Err("ClockMovedBackwards"), last, seq)
    ELSE IF t = last
    THEN LET next_seq == BitAnd(seq + 1, max_sequence)
         IN  IF next_seq = 0
             THEN StepOut(Pending(1), last, seq)
             ELSE AsyncTryStepMasked(t, m, e, seq)
    ELSE AsyncTryStepMasked(t, m, e, 0)

\* mutant: a drift equal to the tolerance is already fatal
AsyncTryStep_ExclusiveTolerance(last, seq, t, m, e) ==
    IF t < last
    THEN LET drift == last - t
         IN  IF drift < CLOCK_BACKWARDS_TOLERANCE_MS
             THEN StepOut(Pending(drift), last, seq)
             ELSE StepOut(Err("ClockMovedBackwards"), last, seq)
    ELSE IF t = last
    THEN LET next_seq == BitAnd(seq + 1, max_sequence)
         IN  IF next_seq = 0
             THEN StepOut(Pending(1), last, seq)
             ELSE AsyncTryStepMasked(t, m, e, next_seq)
    ELSE AsyncTryStepMasked(t, m, e, 0)

AsyncTryStep(last, seq, t, m, e) ==
    IF t < last
    THEN LET drift == last - t
         IN  IF drift <= CLOCK_BACKWARDS_TOLERANCE_MS
             THEN StepOut(Pending(drift), last, seq)
             ELSE StepOut(Err("ClockMovedBackwards"), last, seq)
    ELSE IF t = last
    THEN LET next_seq == BitAnd(seq + 1, max_sequence)
         IN  IF next_seq = 0
             THEN StepOut(Pending(1), last, seq)
             ELSE AsyncTryStepMasked(t, m, e, next_seq)
    ELSE AsyncTryStepMasked(t, m, e, 0)

(***************************************************************************)
(* State.                                                                  *)
(*   kind, machine_id, epoch  the generator constructed ("none" before):   *)
(*                            kind is "blocking" (SnowflakeGenerator) or   *)
(*                            "async" (AsyncSnowflakeGenerator)            *)
(*   ctor                     outcome of the last constructor call         *)
(*   last_timestamp, sequence GeneratorState                               *)
(*   lock                     holder of the mutex, 0 when free             *)
(*   poisoned                 std::sync::Mutex poison flag                 *)
(*   reading                  the value current_timestamp() gave in the    *)
(*                            step just taken, NoReading when that step    *)
(*                            did not read the clock                       *)
(*   count                    per caller: the ids asked for (the count of  *)
(*                            next_id_bulk, 1 otherwise)                   *)
(*   op, pc                   per caller: the entry point called and the   *)
(*                            position in it                               *)
(*   remaining                per caller: ids the call has still to make   *)
(*   ids                      per caller: the Vec next_id_bulk builds      *)
(*   wait                     per caller: the duration handed to           *)
(*                            on_pending / sleep                           *)
(*   result                   per caller: outcome of the last call         *)
(*   issued                   history: every id issued, in issuance order, *)
(*                            with the clock reading it was made from      *)
(*   peer                     a second generator of the same layout, with  *)
(*                            its own machine id, epoch, state and         *)
(*                            issuance log                                 *)
(*   parts                    the last call of from_component_parts: its   *)
(*                            arguments and the id it gave                 *)
(*   codec                    the last call of an encoding or decoding     *)
(*                            entry point of SnowflakeId                   *)
(***************************************************************************)
VARIABLES kind, machine_id, epoch, ctor, last_timestamp, sequence, lock, poisoned,
          reading, op, pc, count, remaining, ids, wait, result, issued,
          peer, parts, codec

vars == <<kind, machine_id, epoch, ctor, last_timestamp, sequence, lock, poisoned,
          reading, op, pc, count, remaining, ids, wait, result, issued,
          peer, parts, codec>>

config == <<kind, machine_id, epoch, ctor>>

\* what the calls on the generator never touch
apart == <<peer, parts, codec>>

\* the generator and its callers
generator == <<kind, machine_id, epoch, ctor, last_timestamp, sequence, lock, poisoned,
               reading, op, pc, count, remaining, ids, wait, result, issued>>

Kinds == {"blocking", "async"}

NoReading == 0 - 1

\* via is the constructor called; InvalidMachineId carries (machine_id, max)
CtorOut(o, via, m, e) ==
    [out |-> o, via |-> via, machine_id |-> m, epoch |-> e, max |-> max_machine_id]

Issue(i, t) == [id |-> i, t |-> t]

\* a second generator: kind is "none" until it is constructed
Peer(k, m, e, last, seq, log) ==
    [kind |-> k, machine_id |-> m, epoch |-> e, last_timestamp |-> last,
     sequence |-> seq, issued |-> log]

NoPeer == Peer("none", 0, 0, 0, 0, <<>>)

\* from_component_parts(timestamp_offset, machine_id, sequence) gave id
Parts(t, m, s, x) ==
    [called |-> TRUE, timestamp_offset |-> t, machine_id |-> m, sequence |-> s, id |-> x]

NoParts == [called |-> FALSE, timestamp_offset |-> 0, machine_id |-> 0, sequence |-> 0,
            id |-> 0]

\* entry point fn was called on the text or the integer given; out is what it gave
Call(fn, text, int, out) == [fn |-> fn, text |-> text, int |-> int, out |-> out]

NoCall == Call("none", <<>>, 0, Decoded(FALSE, 0, <<>>))

Init ==
    /\ kind = "none"
    /\ machine_id = 0
    /\ epoch = 0
    /\ ctor = CtorOut("None", "none", 0, 0)
    /\ last_timestamp = 0
    /\ sequence = 0
    /\ lock = 0
    /\ poisoned = FALSE
    /\ reading = NoReading
    /\ op = [p \in Procs |-> "none"]
    /\ pc = [p \in Procs |-> "idle"]
    /\ count = [p \in Procs |-> 0]
    /\ remaining = [p \in Procs |-> 0]
    /\ ids = [p \in Procs |-> <<>>]
    /\ wait = [p \in Procs |-> 0]
    /\ result = [p \in Procs |-> NoRes]
    /\ issued = <<>>
    /\ peer = NoPeer
    /\ parts = NoParts
    /\ codec = NoCall

(***************************************************************************)
(* Construction: with_epoch and new, of either generator.                  *)
(***************************************************************************)
\* mutant: the largest machine id is rejected too
with_epoch_OffByOne(via, k, m, e) ==
    /\ kind = "none"
    /\ IF m >= max_machine_id
       THEN /\ ctor' = CtorOut("InvalidMachineId", via, m, e)
            /\ UNCHANGED <<kind, machine_id, epoch, last_timestamp, sequence>>
       ELSE /\ ctor' = CtorOut("Ok", via, m, e)
            /\ kind' = k
            /\ machine_id' = m
            /\ epoch' = e
            /\ last_timestamp' = 0
            /\ sequence' = 0
    /\ reading' = NoReading
    /\ UNCHANGED <<lock, poisoned, op, pc, count, remaining, ids, wait, result, issued>>
    /\ UNCHANGED apart

with_epoch(via, k, m, e) ==
    /\ kind = "none"
    /\ IF m > max_machine_id
       THEN /\ ctor' = CtorOut("InvalidMachineId", via, m, e)
            /\ UNCHANGED <<kind, machine_id, epoch, last_timestamp, sequence>>
       ELSE /\ ctor' = CtorOut("Ok", via, m, e)
            /\ kind' = k
            /\ machine_id' = m
            /\ epoch' = e
            /\ last_timestamp' = 0
            /\ sequence' = 0
    /\ reading' = NoReading
    /\ UNCHANGED <<lock, poisoned, op, pc, count, remaining, ids, wait, result, issued>>
    /\ UNCHANGED apart

WithEpoch ==
    \E k \in Kinds, m \in 0..(max_machine_id + 1), e \in Epochs :
        with_epoch("with_epoch", k, m, e)

New ==
    \E k \in Kinds, m \in 0..(max_machine_id + 1) :
        with_epoch("new", k, m, SNOWFLAKE_ID_EPOCH)

(***************************************************************************)
(* A caller enters try_next_id, next_id or next_id_bulk(c).                *)
(***************************************************************************)
RECURSIVE Demand(_)
Demand(S) ==
    IF S = {} THEN 0
    ELSE LET p == CHOOSE q \in S : TRUE
         IN  (IF pc[p] = "idle" THEN 0 ELSE remaining[p]) + Demand(S \ {p})

Enter(p, o, c) ==
    /\ kind # "none"
    /\ pc[p] = "idle"
    /\ Len(issued) + Demand(Procs) + c <= MaxIssued
    /\ op' = [op EXCEPT ![p] = o]
    /\ count' = [count EXCEPT ![p] = c]
    /\ remaining' = [remaining EXCEPT ![p] = c]
    /\ ids' = [ids EXCEPT ![p] = <<>>]
    /\ wait' = [wait EXCEPT ![p] = 0]
    /\ reading' = NoReading
    /\ UNCHANGED <<config, last_timestamp, sequence, lock, poisoned, issued>>
    /\ UNCHANGED apart

CallTry(p) ==
    /\ Enter(p, "try", 1)
    /\ pc' = [pc EXCEPT ![p] = "acquire"]
    /\ result' = [result EXCEPT ![p] = NoRes]

CallNext(p) ==
    /\ Enter(p, "next", 1)
    /\ pc' = [pc EXCEPT ![p] = "acquire"]
    /\ result' = [result EXCEPT ![p] = NoRes]

\* next_id_bulk(0) of the cooperative generator never calls next_id: it returns the
\* empty Vec at once
CallBulk(p) ==
    \E c \in 0..MaxCount :
        /\ Enter(p, "bulk", c)
        /\ IF kind = "async" /\ c = 0
           THEN /\ pc' = [pc EXCEPT ![p] = "idle"]
                /\ result' = [result EXCEPT ![p] = Returned]
           ELSE /\ pc' = [pc EXCEPT ![p] = "acquire"]
                /\ result' = [result EXCEPT ![p] = NoRes]

(***************************************************************************)
(* Taking the lock.  std::sync::Mutex::lock fails on a poisoned mutex:     *)
(* try_next_id maps that to GeneratorPoisoned, next_id unwraps the error   *)
(* of try_next_id, next_id_bulk unwraps the lock result itself.            *)
(* tokio::sync::Mutex is never poisoned.                                   *)
(***************************************************************************)
\* mutant: the lock is taken although another caller holds it
Acquire_NoExclusion(p) ==
    /\ pc[p] = "acquire"
    /\ IF kind = "blocking" /\ poisoned
       THEN /\ pc' = [pc EXCEPT ![p] = "idle"]
            /\ result' = [result EXCEPT ![p] =
                   IF op[p] = "try" THEN Err("GeneratorPoisoned")
                   ELSE IF op[p] = "next" THEN Panic("GeneratorPoisoned")
                   ELSE Panic("PoisonError")]
            /\ remaining' = [remaining EXCEPT ![p] = IF op[p] = "bulk" THEN @ ELSE 0]
            /\ UNCHANGED lock
       ELSE /\ lock' = p
            /\ pc' = [pc EXCEPT ![p] =
                   IF kind = "blocking" /\ op[p] = "bulk"
                   THEN (IF remaining[p] = 0 THEN "return" ELSE "elem")
                   ELSE "step"]
            /\ UNCHANGED <<result, remaining>>
    /\ reading' = NoReading
    /\ UNCHANGED <<config, last_timestamp, sequence, poisoned, op, count, ids, wait,
                   issued>>
    /\ UNCHANGED apart

\* mutant: the lock of a poisoned mutex is handed out like any other
Acquire_IgnoresPoison(p) ==
    /\ pc[p] = "acquire"
    /\ lock = 0
    /\ lock' = p
    /\ pc' = [pc EXCEPT ![p] =
           IF kind = "blocking" /\ op[p] = "bulk"
           THEN (IF remaining[p] = 0 THEN "return" ELSE "elem")
           ELSE "step"]
    /\ reading' = NoReading
    /\ UNCHANGED <<config, last_timestamp, sequence, poisoned, op, count, ids, wait,
                   issued, result, remaining>>
    /\ UNCHANGED apart

Acquire(p) ==
    /\ pc[p] = "acquire"
    /\ lock = 0
    /\ IF kind = "blocking" /\ poisoned
       THEN /\ pc' = [pc EXCEPT ![p] = "idle"]
            /\ result' = [result EXCEPT ![p] =
                   IF op[p] = "try" THEN Err("GeneratorPoisoned")
                   ELSE IF op[p] = "next" THEN Panic("GeneratorPoisoned")
                   ELSE Panic("PoisonError")]
            /\ remaining' = [remaining EXCEPT ![p] = IF op[p] = "bulk" THEN @ ELSE 0]
            /\ UNCHANGED lock
       ELSE /\ lock' = p
            /\ pc' = [pc EXCEPT ![p] =
                   IF kind = "blocking" /\ op[p] = "bulk"
                   THEN (IF remaining[p] = 0 THEN "return" ELSE "elem")
                   ELSE "step"]
            /\ UNCHANGED <<result, remaining>>
    /\ reading' = NoReading
    /\ UNCHANGED <<config, last_timestamp, sequence, poisoned, op, count, ids, wait,
                   issued>>
    /\ UNCHANGED apart

(***************************************************************************)
(* One step of try_next_id under the lock: read the clock, apply the step, *)
(* drop the guard, and hand the outcome to the caller: try_next_id returns *)
(* it; next_id returns the id on Ready, goes to back off on Pending and    *)
(* unwraps an error into a panic; the cooperative next_id_bulk pushes the  *)
(* id next_id returned.                                                    *)
(***************************************************************************)
StepOf(k, last, seq, t, m, e) ==
    IF k = "blocking" THEN TryStep(last, seq, t, m, e) ELSE AsyncTryStep(last, seq, t, m, e)

\* mutant: next_id hands a Pending outcome to its caller
Deliver_PendingEnds(p, out) ==
    IF out.kind = "Ready" /\ op[p] = "bulk"
    THEN /\ ids' = [ids EXCEPT ![p] = Append(@, out.id)]
         /\ remaining' = [remaining EXCEPT ![p] = @ - 1]
         /\ pc' = [pc EXCEPT ![p] = IF remaining[p] = 1 THEN "idle" ELSE "acquire"]
         /\ result' = [result EXCEPT ![p] = IF remaining[p] = 1 THEN Returned ELSE @]
         /\ wait' = [wait EXCEPT ![p] = 0]
    ELSE /\ result' = [result EXCEPT ![p] =
                IF out.kind = "Err" /\ op[p] # "try" THEN Panic(out.err) ELSE out]
         /\ pc' = [pc EXCEPT ![p] = "idle"]
         /\ ids' = [ids EXCEPT ![p] = <<>>]
         /\ remaining' = [remaining EXCEPT ![p] = IF op[p] = "bulk" THEN @ ELSE 0]
         /\ wait' = [wait EXCEPT ![p] = 0]

Deliver(p, out) ==
    IF out.kind = "Pending" /\ op[p] # "try"
    THEN /\ wait' = [wait EXCEPT ![p] = out.wait]
         /\ pc' = [pc EXCEPT ![p] = "backoff"]
         /\ UNCHANGED <<result, remaining, ids>>
    ELSE IF out.kind = "Ready" /\ op[p] = "bulk"
    THEN /\ ids' = [ids EXCEPT ![p] = Append(@, out.id)]
         /\ remaining' = [remaining EXCEPT ![p] = @ - 1]
         /\ pc' = [pc EXCEPT ![p] = IF remaining[p] = 1 THEN "idle" ELSE "acquire"]
         /\ result' = [result EXCEPT ![p] = IF remaining[p] = 1 THEN Returned ELSE @]
         /\ wait' = [wait EXCEPT ![p] = 0]
    ELSE /\ result' = [result EXCEPT ![p] =
                IF out.kind = "Err" /\ op[p] # "try" THEN Panic(out.err) ELSE out]
         /\ pc' = [pc EXCEPT ![p] = "idle"]
         /\ ids' = [ids EXCEPT ![p] = <<>>]
         /\ remaining' = [remaining EXCEPT ![p] = IF op[p] = "bulk" THEN @ ELSE 0]
         /\ wait' = [wait EXCEPT ![p] = 0]

\* mutant: the guard is kept while the caller backs off
Step_HoldsLock(p, t) ==
    /\ pc[p] = "step"
    /\ lock = p
    /\ reading' = t
    /\ LET r == StepOf(kind, last_timestamp, sequence, t, machine_id, epoch)
       IN  /\ last_timestamp' = r.last_timestamp
           /\ sequence' = r.sequence
           /\ issued' = IF r.out.kind = "Ready"
                        THEN Append(issued, Issue(r.out.id, t))
                        ELSE issued
           /\ Deliver(p, r.out)
           /\ lock' = IF r.out.kind = "Pending" /\ op[p] # "try" THEN p ELSE 0
    /\ UNCHANGED <<config, poisoned, op, count>>
    /\ UNCHANGED apart

Step(p, t) ==
    /\ pc[p] = "step"
    /\ lock = p
    /\ reading' = t
    /\ LET r == StepOf(kind, last_timestamp, sequence, t, machine_id, epoch)
       IN  /\ last_timestamp' = r.last_timestamp
           /\ sequence' = r.sequence
           /\ issued' = IF r.out.kind = "Ready"
                        THEN Append(issued, Issue(r.out.id, t))
                        ELSE issued
           /\ Deliver(p, r.out)
    /\ lock' = 0
    /\ UNCHANGED <<config, poisoned, op, count>>
    /\ UNCHANGED apart

(***************************************************************************)
(* Backing off outside the lock: on_pending(wait) returns (blocking) or    *)
(* the sleep ends (cooperative), and the loop of next_id calls             *)
(* try_next_id again.                                                      *)
(***************************************************************************)
Backoff(p) ==
    /\ pc[p] = "backoff"
    /\ pc' = [pc EXCEPT ![p] = "acquire"]
    /\ reading' = NoReading
    /\ UNCHANGED <<config, last_timestamp, sequence, lock, poisoned, op, count,
                   remaining, ids, wait, result, issued>>
    /\ UNCHANGED apart

(***************************************************************************)
(* SnowflakeGenerator::next_id_bulk, under the lock it took once.          *)
(* A panic while the guard is alive poisons the mutex, frees it, and drops *)
(* the Vec being built.                                                    *)
(***************************************************************************)
\* mutant: a panic under the guard leaves the mutex usable
BulkPanic_NoPoison(p, e) ==
    /\ poisoned' = poisoned
    /\ lock' = 0
    /\ result' = [result EXCEPT ![p] = Panic(e)]
    /\ pc' = [pc EXCEPT ![p] = "idle"]
    /\ ids' = [ids EXCEPT ![p] = <<>>]
    /\ wait' = [wait EXCEPT ![p] = 0]
    /\ UNCHANGED <<remaining, issued>>

BulkPanic(p, e) ==
    /\ poisoned' = TRUE
    /\ lock' = 0
    /\ result' = [result EXCEPT ![p] = Panic(e)]
    /\ pc' = [pc EXCEPT ![p] = "idle"]
    /\ ids' = [ids EXCEPT ![p] = <<>>]
    /\ wait' = [wait EXCEPT ![p] = 0]
    /\ UNCHANGED <<remaining, issued>>

\* mutant: the batch does not record the timestamp it used
BulkCommit_NoCommit(p, t, s) ==
    /\ last_timestamp' = last_timestamp
    /\ sequence' = s
    /\ LET timestamp_offset == t - epoch
           masked_timestamp == BitAnd(AsU64(timestamp_offset), Shl(1, timestamp_bits) - 1)
           id == from_component_parts(masked_timestamp, machine_id, s)
       IN  IF timestamp_offset < 0 \/ timestamp_offset > max_timestamp
           THEN BulkPanic(p, "TimestampOverflow")
           ELSE /\ ids' = [ids EXCEPT ![p] = Append(@, id)]
                /\ issued' = Append(issued, Issue(id, t))
                /\ remaining' = [remaining EXCEPT ![p] = @ - 1]
                /\ pc' = [pc EXCEPT ![p] = IF remaining[p] = 1 THEN "return" ELSE "elem"]
                /\ wait' = [wait EXCEPT ![p] = 0]
                /\ UNCHANGED <<lock, poisoned, result>>

\* lines 167-183: commit the timestamp, check the offset, push the id
BulkCommit(p, t, s) ==
    /\ last_timestamp' = t
    /\ sequence' = s
    /\ LET timestamp_offset == t - epoch
           masked_timestamp == BitAnd(AsU64(timestamp_offset), Shl(1, timestamp_bits) - 1)
           id == from_component_parts(masked_timestamp, machine_id, s)
       IN  IF timestamp_offset < 0 \/ timestamp_offset > max_timestamp
           THEN BulkPanic(p, "TimestampOverflow")
           ELSE /\ ids' = [ids EXCEPT ![p] = Append(@, id)]
                /\ issued' = Append(issued, Issue(id, t))
                /\ remaining' = [remaining EXCEPT ![p] = @ - 1]
                /\ pc' = [pc EXCEPT ![p] = IF remaining[p] = 1 THEN "return" ELSE "elem"]
                /\ wait' = [wait EXCEPT ![p] = 0]
                /\ UNCHANGED <<lock, poisoned, result>>

\* mutant: the batch goes on in the same millisecond when the sequence wraps
BulkSequence_NoWait(p, t) ==
    IF t = last_timestamp
    THEN BulkCommit(p, t, BitAnd(sequence + 1, max_sequence))
    ELSE BulkCommit(p, t, 0)

\* mutant: the guard is dropped before the batch waits for the next millisecond
BulkSequence_ReleasesLock(p, t) ==
    IF t = last_timestamp
    THEN LET s == BitAnd(sequence + 1, max_sequence)
         IN  IF s = 0
             THEN /\ sequence' = s
                  /\ wait' = [wait EXCEPT ![p] = 1]
                  /\ pc' = [pc EXCEPT ![p] = "seq_wait"]
                  /\ lock' = 0
                  /\ UNCHANGED <<last_timestamp, poisoned, remaining, ids, result, issued>>
             ELSE BulkCommit(p, t, s)
    ELSE BulkCommit(p, t, 0)

\* lines 155-165 with a reading t >= last_timestamp: the sequence is advanced in
\* place; when it wraps to 0 the loop of lines 158-161 calls on_pending(1 ms)
BulkSequence(p, t) ==
    IF t = last_timestamp
    THEN LET s == BitAnd(sequence + 1, max_sequence)
         IN  IF s = 0
             THEN /\ sequence' = s
                  /\ wait' = [wait EXCEPT ![p] = 1]
                  /\ pc' = [pc EXCEPT ![p] = "seq_wait"]
                  /\ UNCHANGED <<last_timestamp, lock, poisoned, remaining, ids,
                                 result, issued>>
             ELSE BulkCommit(p, t, s)
    ELSE BulkCommit(p, t, 0)

\* lines 138-153: the first reading of the clock for an element
BulkElem(p, t) ==
    /\ pc[p] = "elem"
    /\ lock = p
    /\ reading' = t
    /\ LET timestamp == t
       IN  IF timestamp < last_timestamp
           THEN LET drift == last_timestamp - timestamp
                IN  IF drift <= CLOCK_BACKWARDS_TOLERANCE_MS
                    THEN /\ wait' = [wait EXCEPT ![p] = drift]
                         /\ pc' = [pc EXCEPT ![p] = "drift_wait"]
                         /\ UNCHANGED <<last_timestamp, sequence, lock, poisoned,
                                        remaining, ids, result, issued>>
                    ELSE /\ BulkPanic(p, "ClockMovedBackwards")
                         /\ UNCHANGED <<last_timestamp, sequence>>
           ELSE BulkSequence(p, timestamp)
    /\ UNCHANGED <<config, op, count>>
    /\ UNCHANGED apart

\* lines 145-148: on_pending(drift) returned; the clock is read again and the loop
\* test decides between another on_pending(drift), with the drift computed before
\* the loop, and going on to line 155
BulkDriftWait(p, t) ==
    /\ pc[p] = "drift_wait"
    /\ lock = p
    /\ reading' = t
    /\ LET timestamp == t
       IN  IF timestamp < last_timestamp
           THEN UNCHANGED <<last_timestamp, sequence, lock, poisoned, pc, remaining,
                            ids, wait, result, issued>>
           ELSE BulkSequence(p, timestamp)
    /\ UNCHANGED <<config, op, count>>
    /\ UNCHANGED apart

\* lines 158-161: on_pending(1 ms) returned; the clock is read again and the loop
\* test decides between another on_pending(1 ms) and going on to line 167
BulkSeqWait(p, t) ==
    /\ pc[p] = "seq_wait"
    /\ lock = p
    /\ reading' = t
    /\ LET timestamp == t
       IN  IF timestamp <= last_timestamp
           THEN UNCHANGED <<last_timestamp, sequence, lock, poisoned, pc, remaining,
                            ids, wait, result, issued>>
           ELSE BulkCommit(p, timestamp, sequence)
    /\ UNCHANGED <<config, op, count>>
    /\ UNCHANGED apart

\* line 186: the Vec is returned and the guard dropped
BulkReturn(p) ==
    /\ pc[p] = "return"
    /\ lock = p
    /\ result' = [result EXCEPT ![p] = Returned]
    /\ pc' = [pc EXCEPT ![p] = "idle"]
    /\ lock' = 0
    /\ reading' = NoReading
    /\ UNCHANGED <<config, last_timestamp, sequence, poisoned, op, count, remaining,
                   ids, wait, issued>>
    /\ UNCHANGED apart

(***************************************************************************)
(* The caller's on_pending closure panics: in next_id outside the lock, in *)
(* next_id_bulk under it.                                                  *)
(***************************************************************************)
CallbackPanic(p) ==
    /\ kind = "blocking"
    /\ pc[p] \in {"backoff", "drift_wait", "seq_wait"}
    /\ IF pc[p] = "backoff"
       THEN /\ result' = [result EXCEPT ![p] = Panic("on_pending")]
            /\ pc' = [pc EXCEPT ![p] = "idle"]
            /\ remaining' = [remaining EXCEPT ![p] = 0]
            /\ wait' = [wait EXCEPT ![p] = 0]
            /\ UNCHANGED <<lock, poisoned, ids, issued>>
       ELSE BulkPanic(p, "on_pending")
    /\ reading' = NoReading
    /\ UNCHANGED <<config, last_timestamp, sequence, op, count>>
    /\ UNCHANGED apart

Next ==
    \/ WithEpoch
    \/ New
    \/ \E p \in Procs : CallTry(p)
    \/ \E p \in Procs : CallNext(p)
    \/ \E p \in Procs : CallBulk(p)
    \/ \E p \in Procs : Acquire(p)
    \/ \E p \in Procs, t \in Clock : Step(p, t)
    \/ \E p \in Procs : Backoff(p)
    \/ \E p \in Procs, t \in Clock : BulkElem(p, t)
    \/ \E p \in Procs, t \in Clock : BulkDriftWait(p, t)
    \/ \E p \in Procs, t \in Clock : BulkSeqWait(p, t)
    \/ \E p \in Procs : BulkReturn(p)
    \/ \E p \in Procs : CallbackPanic(p)

Spec == Init /\ [][Next]_vars

(***************************************************************************)
(* SnowflakeId values on their own: calls of from_component_parts and of   *)
(* the encoding and decoding entry points, on every argument of the        *)
(* bounded sets, one call in a behaviour.  No generator is involved.       *)
(***************************************************************************)
\* one call in a behaviour
Uncalled == ~parts.called /\ codec = NoCall

Pack ==
    /\ Uncalled
    /\ \E t \in 0..(timestamp_mask + 1), m \in 0..(machine_id_mask + 1),
          s \in 0..(sequence_mask + 1) :
           /\ parts' = Parts(t, m, s, from_component_parts(t, m, s))
           /\ codec' = NoCall
           /\ UNCHANGED <<generator, peer>>

Decode(fn, text, int, out) ==
    /\ codec' = Call(fn, text, int, out)
    /\ parts' = NoParts
    /\ UNCHANGED <<generator, peer>>

CallNew == Uncalled /\ \E v \in I64 : Decode("new", <<>>, v, SnowflakeId_new(v))

CallTryFrom == Uncalled /\ \E v \in I64 : Decode("try_from", <<>>, v, try_from(v))

CallFromStr == Uncalled /\ \E s \in Strings : Decode("from_str", s, 0, from_str(s))

\* Display of an id made by new or, for a negative value, by new_unchecked
CallDisplay ==
    /\ Uncalled
    /\ \E v \in I64 :
           Decode("display", to_string(v), v, Decoded(TRUE, new_unchecked(v), <<>>))

\* serde: the id is serialized, to text by a human-readable serializer and to the
\* integer otherwise
CallSerialize ==
    /\ Uncalled
    /\ \E v \in I64, is_human_readable \in BOOLEAN :
           LET w == serialize(v, is_human_readable)
           IN  Decode(IF w.str THEN "serialize_str" ELSE "serialize_i64", w.text, v,
                      Decoded(TRUE, new_unchecked(IF w.str THEN v ELSE w.int), <<>>))

\* serde: a string or an integer of the input is deserialized
CallDeserialize ==
    /\ Uncalled
    /\ \/ \E s \in Strings : Decode("deserialize_str", s, 0, deserialize(AsStr(s)))
       \/ \E n \in I64_MIN..U64_MAX :
              Decode("deserialize_int", <<>>, n, deserialize(AsInt(n)))

ValueNext ==
    \/ Pack
    \/ CallNew
    \/ CallTryFrom
    \/ CallFromStr
    \/ CallDisplay
    \/ CallSerialize
    \/ CallDeserialize

ValueSpec == Init /\ [][ValueNext]_vars

(***************************************************************************)
(* Two generators of the same layout side by side.  Each has its own lock, *)
(* so a try_next_id on the second one (take the lock, step, drop the       *)
(* guard) is one step beside the calls on the first, which has one caller. *)
(***************************************************************************)
CrossInit ==
    /\ kind \in Kinds
    /\ machine_id \in 0..max_machine_id
    /\ epoch \in Epochs
    /\ ctor = CtorOut("Ok", "with_epoch", machine_id, epoch)
    /\ last_timestamp = 0
    /\ sequence = 0
    /\ lock = 0
    /\ poisoned = FALSE
    /\ reading = NoReading
    /\ op = [p \in Procs |-> "none"]
    /\ pc = [p \in Procs |-> "idle"]
    /\ count = [p \in Procs |-> 0]
    /\ remaining = [p \in Procs |-> 0]
    /\ ids = [p \in Procs |-> <<>>]
    /\ wait = [p \in Procs |-> 0]
    /\ result = [p \in Procs |-> NoRes]
    /\ issued = <<>>
    /\ peer \in {Peer(kind, m, e, 0, 0, <<>>) : m \in 0..max_machine_id, e \in Epochs}
    /\ parts = NoParts
    /\ codec = NoCall

PeerStep(t) ==
    /\ peer.kind # "none"
    /\ Len(peer.issued) < MaxIssued
    /\ LET r == StepOf(peer.kind, peer.last_timestamp, peer.sequence, t,
                       peer.machine_id, peer.epoch)
       IN  peer' = [peer EXCEPT !.last_timestamp = r.last_timestamp,
                                !.sequence = r.sequence,
                                !.issued = IF r.out.kind = "Ready"
                                           THEN Append(@, Issue(r.out.id, t))
                                           ELSE @]
    /\ UNCHANGED <<generator, parts, codec>>

\* the caller of the first generator
Caller == CHOOSE p \in Procs : TRUE

CrossNext ==
    \/ CallTry(Caller)
    \/ Acquire(Caller)
    \/ \E t \in Clock : Step(Caller, t)
    \/ \E t \in Clock : PeerStep(t)

CrossSpec == CrossInit /\ [][CrossNext]_vars

(***************************************************************************)
(* The retry loop of next_id under fair scheduling.  Callers of next_id    *)
(* and try_next_id only, so that no caller holds the lock for longer than  *)
(* a step and the lock is never poisoned.  The fairness is what the claim  *)
(* about the loop assumes:                                                 *)
(*   - a caller waiting for the lock is granted it (SF: the lock is free   *)
(*     again and again, not continuously);                                 *)
(*   - a caller that holds the lock takes its step, and a backoff ends;    *)
(*   - the clock makes progress: a caller whose steps could again and      *)
(*     again read a value above last_timestamp does read one.              *)
(***************************************************************************)
RetryNext ==
    \/ WithEpoch
    \/ \E p \in Procs : CallTry(p)
    \/ \E p \in Procs : CallNext(p)
    \/ \E p \in Procs : Acquire(p)
    \/ \E p \in Procs, t \in Clock : Step(p, t)
    \/ \E p \in Procs : Backoff(p)

ClockProgress(p) == \E t \in Clock : t > last_timestamp /\ Step(p, t)

RetryFairness ==
    \A p \in Procs :
        /\ SF_vars(Acquire(p))
        /\ WF_vars(\E t \in Clock : Step(p, t))
        /\ WF_vars(Backoff(p))
        /\ SF_vars(ClockProgress(p))

RetrySpec == Init /\ [][RetryNext]_vars /\ RetryFairness

(***************************************************************************)
(* Helpers for the properties.                                             *)
(***************************************************************************)
Last(q) == q[Len(q)]

StrictlyIncreasing(q) == \A i, j \in 1..Len(q) : i < j => q[i] < q[j]

(***************************************************************************)
(* C1  Monotonicity.  For one generator and any sequence of clock          *)
(* readings, readings that go backwards included, an id issued before      *)
(* another (returned Ready by try_next_id or next_id, or pushed into the    *)
(* Vec of next_id_bulk) has the smaller raw value.                         *)
(***************************************************************************)
C1_Monotonic ==
    \A i, j \in 1..Len(issued) : i < j => issued[i].id < issued[j].id

\* two ids were issued from the same millisecond, a step then read a clock that had
\* gone backwards, and a third id was issued after it
C1_Witness ==
    /\ Len(issued) = 3
    /\ issued[1].t = issued[2].t
    /\ \E p \in Procs : result[p].kind = "Pending" /\ result[p].wait = 2

(***************************************************************************)
(* C2  Uniqueness under concurrency.  Whatever the interleaving of the     *)
(* callers of try_next_id, next_id and next_id_bulk on one generator, no   *)
(* two ids issued are equal: no two carry the same (timestamp, sequence)   *)
(* pair.                                                                   *)
(***************************************************************************)
C2_Unique ==
    \A i, j \in 1..Len(issued) :
        i # j =>
            /\ issued[i].id # issued[j].id
            /\ <<timestamp_of(issued[i].id), sequence_of(issued[i].id)>>
                   # <<timestamp_of(issued[j].id), sequence_of(issued[j].id)>>

\* two callers were each given an id made from the same millisecond, one of them
\* while the other was between two elements of its batch
C2_Witness ==
    /\ Len(issued) = 3
    /\ issued[1].t = issued[2].t
    /\ \E p, q \in Procs :
        /\ p # q
        /\ result[p].kind = "Ready"
        /\ result[p].id = issued[2].id
        /\ op[q] = "bulk"
        /\ ids[q] = <<issued[1].id, issued[3].id>>

(***************************************************************************)
(* C3  Bulk ordering.  A next_id_bulk(count) call that returns (no fatal   *)
(* condition arose and the clock caught up), of either generator and for    *)
(* every count >= 0, returns exactly count ids, and the raw values of the  *)
(* ids of a batch are strictly increasing in list order.                   *)
(***************************************************************************)
C3_BulkOrdering ==
    \A p \in Procs :
        op[p] = "bulk" =>
            /\ StrictlyIncreasing(ids[p])
            /\ (result[p].kind = "Returned" => Len(ids[p]) = count[p])

\* a blocking batch of two returned while the other caller was waiting for the lock
C3_Witness ==
    \E p, q \in Procs :
        /\ kind = "blocking"
        /\ op[p] = "bulk"
        /\ result[p].kind = "Returned"
        /\ count[p] = 2
        /\ Len(ids[p]) = 2
        /\ pc[q] = "acquire"

(***************************************************************************)
(* What a step that reads the clock gives its caller, as seen across the   *)
(* transition.  The caller holding the lock is the one that reads.         *)
(***************************************************************************)
ReadBy(p) == lock = p /\ reading' # NoReading

\* Pending(w) reached the caller: returned by try_next_id, or handed to its backoff
\* (on_pending(w) or sleep(w)) by next_id and next_id_bulk
PendingGiven(p, w) ==
    IF op[p] = "try"
    THEN result'[p] = Pending(w)
    ELSE pc'[p] \in {"backoff", "drift_wait", "seq_wait"} /\ wait'[p] = w

\* the call ended on the fatal condition e, typed or as a panic
FatalGiven(p, e) == result'[p].kind \in {"Err", "Panic"} /\ result'[p].err = e

(***************************************************************************)
(* C4  Clock regression tolerance.  Whenever the clock is read and gives   *)
(* t < last_timestamp, with drift = last_timestamp - t: the caller gets    *)
(* Pending(drift) if drift <= tolerance and the fatal clock-backwards      *)
(* failure if drift >= tolerance + 1, and no id is issued.  Stated for     *)
(* every reading of the clock, the re-readings inside the wait loops of    *)
(* next_id_bulk included; a panic counts as the fatal failure here.        *)
(***************************************************************************)
C4_Regression(p) ==
    LET drift == last_timestamp - reading'
    IN  /\ issued' = issued
        /\ IF drift <= CLOCK_BACKWARDS_TOLERANCE_MS
           THEN PendingGiven(p, drift)
           ELSE FatalGiven(p, "ClockMovedBackwards")

C4_ClockRegression ==
    [][\A p \in Procs :
          ReadBy(p) /\ reading' < last_timestamp => C4_Regression(p)]_vars

\* the part of C4 that the code satisfies: the steps of try_next_id (both
\* generators) and the first reading of each element of next_id_bulk
C4_FirstReadings ==
    [][\A p \in Procs :
          ReadBy(p) /\ reading' < last_timestamp /\ pc[p] \in {"step", "elem"}
              => C4_Regression(p)]_vars

(***************************************************************************)
(* C5  Sequence rollover.  Once the id with sequence == sequence_mask has  *)
(* been issued at millisecond t: while the clock stays at t every step     *)
(* gives Pending(1 ms); no id is issued on a reading that is not greater   *)
(* than t; and the next id issued has sequence 0 and a strictly larger     *)
(* timestamp field.  So sequence_mask + 2 requests in one millisecond meet *)
(* at least one Pending.                                                   *)
(***************************************************************************)
C5_Exhausted == Len(issued) > 0 /\ sequence_of(Last(issued).id) = sequence_mask

C5_Rollover ==
    [][C5_Exhausted =>
          /\ \A p \in Procs :
                ReadBy(p) /\ reading' <= Last(issued).t =>
                    /\ issued' = issued
                    /\ (reading' = last_timestamp => PendingGiven(p, 1))
          /\ issued' # issued =>
                /\ sequence_of(Last(issued').id) = 0
                /\ timestamp_of(Last(issued').id) > timestamp_of(Last(issued).id)]_vars

\* both ids of one millisecond are out and a try_next_id that read the same
\* millisecond again came back Pending(1 ms)
C5_Witness ==
    /\ Len(issued) >= 2
    /\ issued[Len(issued) - 1].t = Last(issued).t
    /\ sequence_of(Last(issued).id) = sequence_mask
    /\ reading = Last(issued).t
    /\ last_timestamp = reading
    /\ \E p \in Procs : op[p] = "try" /\ result[p] = Pending(1)

(***************************************************************************)
(* Fatal runtime conditions (spec section 7).                              *)
(***************************************************************************)
Fatal == {"ClockMovedBackwards", "TimestampOverflow"}

(***************************************************************************)
(* C6  Batch-path fatal propagation.  A next_id_bulk call that meets a     *)
(* fatal condition (clock drift beyond tolerance, timestamp overflow) ends *)
(* with a typed failure and keeps the ids it had already produced: it does *)
(* not panic and does not drop the partial result.                         *)
(***************************************************************************)
C6_BulkFatalTyped ==
    \A p \in Procs :
        op[p] = "bulk" /\ result[p].err \in Fatal =>
            /\ result[p].kind = "Err"
            /\ Len(ids[p]) = count[p] - remaining[p]

(***************************************************************************)
(* C7  Single-id fatal propagation.  In try_next_id and in the retry loop  *)
(* of next_id, of both generators, a fatal condition reaches the caller as *)
(* a typed error result, never as a panic.                                 *)
(***************************************************************************)
C7_SingleFatalTyped ==
    \A p \in Procs :
        op[p] \in {"try", "next"} /\ result[p].err \in Fatal => result[p].kind = "Err"

\* the part of C7 that the code satisfies: try_next_id itself
C7_TryFatalTyped ==
    \A p \in Procs :
        op[p] = "try" /\ result[p].err \in Fatal => result[p].kind = "Err"

(***************************************************************************)
(* C8  Capacity rejection.  new(machine_id) and with_epoch(machine_id,     *)
(* epoch) fail with InvalidMachineId and construct nothing when            *)
(* machine_id > max_machine_id, and succeed for every machine_id in        *)
(* 0..max_machine_id, with last_timestamp = 0, sequence = 0 and the epoch  *)
(* given (the default epoch for new).                                      *)
(***************************************************************************)
C8_CapacityRejection ==
    [][ctor' # ctor =>
          /\ ctor'.via = "new" => ctor'.epoch = SNOWFLAKE_ID_EPOCH
          /\ IF ctor'.machine_id > max_machine_id
             THEN /\ ctor'.out = "InvalidMachineId"
                  /\ ctor'.max = max_machine_id
                  /\ kind' = "none"
             ELSE /\ ctor'.out = "Ok"
                  /\ kind' \in Kinds
                  /\ machine_id' = ctor'.machine_id
                  /\ epoch' = ctor'.epoch
                  /\ last_timestamp' = 0
                  /\ sequence' = 0]_vars

\* machine_id = max_machine_id + 1 was rejected and nothing was constructed
C8_Witness ==
    /\ ctor.out = "InvalidMachineId"
    /\ ctor.machine_id = max_machine_id + 1
    /\ kind = "none"

(***************************************************************************)
(* C9  Lock failure is a distinct failure kind.  When the lock of the      *)
(* blocking generator is poisoned, every entry point ends with the typed   *)
(* GeneratorPoisoned failure, without reading the clock and without        *)
(* touching (last_timestamp, sequence).                                    *)
(***************************************************************************)
C9_PoisonOutcome(p) ==
    /\ result'[p] = Err("GeneratorPoisoned")
    /\ reading' = NoReading
    /\ UNCHANGED <<last_timestamp, sequence, issued>>

C9_PoisonedTyped ==
    [][\A p \in Procs :
          poisoned /\ pc[p] = "acquire" /\ pc'[p] # "acquire" => C9_PoisonOutcome(p)]_vars

\* the part of C9 that the code satisfies: try_next_id
C9_TryPoisonedTyped ==
    [][\A p \in Procs :
          poisoned /\ pc[p] = "acquire" /\ pc'[p] # "acquire" /\ op[p] = "try"
              => C9_PoisonOutcome(p)]_vars

(***************************************************************************)
(* C10  Issued-id layout.  Every id issued is non-negative, satisfies      *)
(* is_valid, carries the generator's machine_id in the machine-id field, a *)
(* sequence in 0..max_sequence, and in the timestamp field the clock       *)
(* reading of its step minus the epoch, so that timestamp_with_epoch       *)
(* gives back that reading.                                                *)
(***************************************************************************)
C10_Layout ==
    \A i \in 1..Len(issued) :
        LET x == issued[i].id
        IN  /\ x >= 0
            /\ is_valid(x)
            /\ machine_id_of(x) = machine_id
            /\ sequence_of(x) \in 0..max_sequence
            /\ timestamp_of(x) = issued[i].t - epoch
            /\ timestamp_with_epoch(x, epoch) = issued[i].t

\* an id with every field at its maximum was issued under a non-zero epoch
C10_Witness ==
    /\ Len(issued) > 0
    /\ epoch # 0
    /\ machine_id = max_machine_id
    /\ timestamp_of(Last(issued).id) = timestamp_mask
    /\ sequence_of(Last(issued).id) = max_sequence

(***************************************************************************)
(* C11  Round-trip extraction.  For every triple (t, m, s) with            *)
(* t <= timestamp_mask, m <= machine_id_mask and s <= sequence_mask, the   *)
(* id x = from_component_parts(t, m, s) gives back timestamp(x) = t,       *)
(* machine_id(x) = m, sequence(x) = s, and is_valid(x) holds.              *)
(***************************************************************************)
C11_InBounds ==
    /\ parts.called
    /\ parts.timestamp_offset <= timestamp_mask
    /\ parts.machine_id <= machine_id_mask
    /\ parts.sequence <= sequence_mask

C11_RoundTrip ==
    C11_InBounds =>
        /\ timestamp_of(parts.id) = parts.timestamp_offset
        /\ machine_id_of(parts.id) = parts.machine_id
        /\ sequence_of(parts.id) = parts.sequence
        /\ is_valid(parts.id)

\* the triple with every field at its mask was packed
C11_Witness ==
    /\ C11_InBounds
    /\ parts.timestamp_offset = timestamp_mask
    /\ parts.machine_id = machine_id_mask
    /\ parts.sequence = sequence_mask

(***************************************************************************)
(* C12  Cross-instance ordering.  For an id a of one generator and an id b *)
(* of another generator of the same layout and epoch, whatever their       *)
(* machine ids: if the timestamp field (equally, the clock reading) of a   *)
(* is smaller than that of b then a < b by raw value; when the timestamp   *)
(* fields are equal the smaller machine id gives the smaller id, whatever  *)
(* the sequences and whichever was issued first.                           *)
(***************************************************************************)
C12_Ordered(a, ma, b, mb) ==
    /\ timestamp_of(a.id) < timestamp_of(b.id) => a.id < b.id
    /\ a.t < b.t => a.id < b.id
    /\ timestamp_of(a.id) = timestamp_of(b.id) /\ ma < mb => a.id < b.id

C12_CrossOrdering ==
    peer.epoch = epoch =>
        \A i \in 1..Len(issued), j \in 1..Len(peer.issued) :
            /\ C12_Ordered(issued[i], machine_id, peer.issued[j], peer.machine_id)
            /\ C12_Ordered(peer.issued[j], peer.machine_id, issued[i], machine_id)

\* two ids of one millisecond of which the one with the larger sequence has the
\* smaller machine id, and an id of a later millisecond with the smaller machine id
C12_Witness ==
    /\ peer.kind # "none"
    /\ peer.epoch = epoch
    /\ machine_id < peer.machine_id
    /\ \E i \in 1..Len(issued), j \in 1..Len(peer.issued) :
          /\ timestamp_of(issued[i].id) = timestamp_of(peer.issued[j].id)
          /\ sequence_of(issued[i].id) > sequence_of(peer.issued[j].id)
    /\ \E i \in 1..Len(issued), j \in 1..Len(peer.issued) :
          timestamp_of(issued[i].id) > timestamp_of(peer.issued[j].id)

(***************************************************************************)
(* C13  Retry-loop termination.  A next_id call of either generator ends   *)
(* only with a Ready id or on a fatal failure, never on Pending.  A step   *)
(* of it that reads the millisecond of last_timestamp with the sequence    *)
(* exhausted leaves the state as it was and goes to back off for 1 ms, so  *)
(* with the clock frozen there the call retries for ever.  Under fair      *)
(* scheduling and clock progress a call in progress ends, unless           *)
(* last_timestamp has reached the last value the clock can give            *)
(* (MaxClock), where no reading above it exists.                           *)
(***************************************************************************)
C13_InCall(p) == op[p] = "next" /\ pc[p] # "idle"

C13_Ended(p) ==
    /\ pc[p] = "idle"
    /\ \/ result[p].kind = "Ready"
       \/ result[p].kind \in {"Err", "Panic"} /\ result[p].err \in Fatal

C13_Frozen(p) ==
    /\ op[p] = "next"
    /\ ReadBy(p)
    /\ reading' = last_timestamp
    /\ BitAnd(sequence + 1, max_sequence) = 0

C13_Termination ==
    /\ [](\A p \in Procs : op[p] = "next" /\ pc[p] = "idle" => C13_Ended(p))
    /\ [][\A p \in Procs :
             C13_Frozen(p) =>
                 /\ pc'[p] = "backoff"
                 /\ wait'[p] = 1
                 /\ UNCHANGED <<last_timestamp, sequence, issued>>]_vars
    /\ \A p \in Procs :
          C13_InCall(p) ~> (C13_Ended(p) \/ last_timestamp = MaxClock)

\* a next_id call is backing off for 1 ms after reading the exhausted millisecond,
\* and the clock can still give a later one
C13_Witness ==
    \E p \in Procs :
        /\ C13_InCall(p)
        /\ pc[p] = "backoff"
        /\ wait[p] = 1
        /\ reading = last_timestamp
        /\ sequence = max_sequence
        /\ last_timestamp < MaxClock

(***************************************************************************)
(* C14  Textual round-trip.  For every id with a non-negative value v, the *)
(* text Display (and a human-readable serializer) gives is exactly the     *)
(* decimal digits of v, with no sign and no leading zero, and from_str of  *)
(* that text, deserializing that text and deserializing the bare integer v *)
(* each give an id equal to the original.                                  *)
(***************************************************************************)
RECURSIVE C14_Value(_)
C14_Value(s) ==
    IF Len(s) = 0 THEN 0
    ELSE 10 * C14_Value(SubSeq(s, 1, Len(s) - 1)) + to_digit(s[Len(s)])

C14_IsDecimal(s, v) ==
    /\ Len(s) >= 1
    /\ \A i \in 1..Len(s) : IsDigit(s[i])
    /\ Len(s) > 1 => s[1] # "0"
    /\ C14_Value(s) = v

C14_TextRoundTrip ==
    codec.fn \in {"display", "serialize_str", "serialize_i64"} /\ codec.int >= 0 =>
        /\ codec.out.id = codec.int
        /\ deserialize(AsInt(codec.out.id)) = Decoded(TRUE, codec.int, <<>>)
        /\ codec.fn # "serialize_i64" =>
              /\ C14_IsDecimal(codec.text, codec.int)
              /\ from_str(codec.text) = Decoded(TRUE, codec.int, <<>>)
              /\ deserialize(AsStr(codec.text)) = Decoded(TRUE, codec.int, <<>>)

\* the largest id was written as text: two digits or more
C14_Witness ==
    /\ codec.fn = "display"
    /\ codec.int = I64_MAX
    /\ Len(codec.text) >= 2

(***************************************************************************)
(* C15  Decoding rejection.  SnowflakeId::new, try_from, from_str and      *)
(* deserialization from a string or an integer fail when the value is      *)
(* negative (an integer above i64::MAX, which would be negative as i64,    *)
(* included), so none of them gives an id with a negative value; and the   *)
(* error for a string that is not a number differs from the error for a    *)
(* negative value.                                                         *)
(***************************************************************************)
C15_OfInteger == {"new", "try_from", "deserialize_int"}

C15_OfText == {"from_str", "deserialize_str"}

\* "-" and digits that are not all zero
C15_NegativeText(s) ==
    /\ Len(s) >= 2
    /\ s[1] = "-"
    /\ \A i \in 2..Len(s) : IsDigit(s[i])
    /\ C14_Value(Tail(s)) > 0

\* not an optional sign followed by one digit or more
C15_NonNumeric(s) ==
    \/ Len(s) = 0
    \/ Len(s) = 1 /\ ~IsDigit(s[1])
    \/ \E i \in 1..Len(s) : ~IsDigit(s[i]) /\ ~(i = 1 /\ s[1] \in {"+", "-"})

C15_NegativeError(msg) ==
    \/ msg = <<"InvalidId", "Snowflake ID cannot be negative">>
    \/ msg = <<"custom", "snowflake id cannot be negative">>

C15_DecodingRejection ==
    codec.fn \in C15_OfInteger \cup C15_OfText =>
        /\ codec.out.ok => codec.out.id >= 0
        /\ codec.fn \in C15_OfInteger /\ (codec.int < 0 \/ codec.int > I64_MAX)
              => ~codec.out.ok
        /\ codec.fn \in C15_OfInteger /\ codec.int < 0
              => C15_NegativeError(codec.out.msg)
        /\ codec.fn \in C15_OfText /\ C15_NegativeText(codec.text)
              => ~codec.out.ok
        /\ codec.fn \in C15_OfText /\ C15_NegativeText(codec.text)
                                   /\ 0 - C14_Value(Tail(codec.text)) >= I64_MIN
              => C15_NegativeError(codec.out.msg)
        /\ codec.fn \in C15_OfText /\ C15_NonNumeric(codec.text)
              => ~codec.out.ok /\ ~C15_NegativeError(codec.out.msg)

\* the string "-1" was refused by from_str with the negative-value error
C15_Witness ==
    /\ codec.fn = "from_str"
    /\ codec.text = <<"-", "1">>
    /\ ~codec.out.ok
    /\ C15_NegativeError(codec.out.msg)

(***************************************************************************)
(* C16  Frame of the non-issuing outcomes.  A step of try_next_id, of      *)
(* either generator and whichever entry point runs it, that gives Pending  *)
(* (drift within tolerance, or the sequence exhausted in the current       *)
(* millisecond) or ClockMovedBackwards leaves last_timestamp and sequence  *)
(* exactly as they were, and issues nothing.                               *)
(***************************************************************************)
C16_Pending(p) ==
    IF op[p] = "try" THEN result'[p].kind = "Pending" ELSE pc'[p] = "backoff"

C16_Frame ==
    [][\A p \in Procs :
          /\ pc[p] = "step"
          /\ ReadBy(p)
          /\ C16_Pending(p) \/ FatalGiven(p, "ClockMovedBackwards")
          => UNCHANGED <<last_timestamp, sequence, issued>>]_vars

\* try_next_id came back Pending(2 ms) from a state with a non-zero sequence, which
\* is still there
C16_Witness ==
    \E p \in Procs :
        /\ op[p] = "try"
        /\ pc[p] = "idle"
        /\ result[p] = Pending(2)
        /\ reading = last_timestamp - 2
        /\ sequence = max_sequence
        /\ sequence > 0

(***************************************************************************)
(* C17  TimestampOverflow comes after the commit point.  A step of         *)
(* try_next_id fails with TimestampOverflow exactly when it read           *)
(* t >= last_timestamp, the sequence was not exhausted, and t - epoch is   *)
(* below 0 or above max_timestamp; last_timestamp is then already t and    *)
(* the sequence already updated, and no id is issued.  Whenever a step     *)
(* issues an id, masking the offset to timestamp_bits changes nothing.     *)
(***************************************************************************)
C17_Fresh(t) ==
    \/ t > last_timestamp
    \/ t = last_timestamp /\ BitAnd(sequence + 1, max_sequence) # 0

C17_OutOfRange(t) == t - epoch < 0 \/ t - epoch > max_timestamp

C17_Step(p) ==
    LET t == reading'
        overflow == FatalGiven(p, "TimestampOverflow")
    IN  /\ overflow <=> C17_Fresh(t) /\ C17_OutOfRange(t)
        /\ overflow =>
              /\ last_timestamp' = t
              /\ sequence' = IF t = last_timestamp
                             THEN BitAnd(sequence + 1, max_sequence)
                             ELSE 0
              /\ issued' = issued
        /\ issued' # issued =>
              /\ BitAnd(AsU64(t - epoch), timestamp_mask) = t - epoch
              /\ timestamp_of(Last(issued').id) = t - epoch

C17_OverflowAfterCommit ==
    [][\A p \in Procs : pc[p] = "step" /\ ReadBy(p) => C17_Step(p)]_vars

\* after an id had been issued, try_next_id read a millisecond beyond the timestamp
\* field: it returned TimestampOverflow and the generator is left at that millisecond
C17_Witness ==
    \E p \in Procs :
        /\ op[p] = "try"
        /\ result[p] = Err("TimestampOverflow")
        /\ reading - epoch > max_timestamp
        /\ last_timestamp = reading
        /\ sequence = 0
        /\ Len(issued) > 0
        /\ Last(issued).t < last_timestamp

(***************************************************************************)
(* C18  Mutual exclusion.  At any moment at most one caller is inside a    *)
(* step (or a batch) on the generator, and it is the holder of the lock;   *)
(* last_timestamp and sequence change, and the clock is read, only in a    *)
(* step of a caller that already held the lock before that step, so the    *)
(* reading is taken after the lock and no commit of another caller comes   *)
(* between a reading and its use.                                          *)
(***************************************************************************)
C18_Inside(p) == pc[p] \in {"step", "elem", "drift_wait", "seq_wait", "return"}

C18_Touched ==
    \/ last_timestamp' # last_timestamp
    \/ sequence' # sequence
    \/ issued' # issued
    \/ reading' # NoReading

C18_MutualExclusion ==
    /\ [](\A p, q \in Procs : C18_Inside(p) /\ C18_Inside(q) => p = q)
    /\ [](\A p \in Procs : C18_Inside(p) <=> lock = p)
    /\ [][kind # "none" /\ C18_Touched =>
             \E p \in Procs :
                 /\ lock = p
                 /\ C18_Inside(p)
                 /\ \A q \in Procs \ {p} : ~C18_Inside(q) /\ pc'[q] = pc[q]]_vars

\* one caller is about to read the clock under the lock while the other, which
\* called after ids had been issued, waits for the lock
C18_Witness ==
    \E p, q \in Procs :
        /\ p # q
        /\ pc[p] = "step"
        /\ lock = p
        /\ pc[q] = "acquire"
        /\ Len(issued) > 0

(***************************************************************************)
(* C19  Blocking batch atomicity.  next_id_bulk of the blocking generator  *)
(* holds the lock from before its first element until after its last, the  *)
(* calls of the backoff callback included.  So the ids of a batch are      *)
(* consecutive in issuance order (no id of another caller falls between    *)
(* two of them), and while a batch is in progress every id issued goes to  *)
(* the batch and no other caller gets the lock or completes a step: a      *)
(* caller outside can only enter a call, end a backoff, or unwind from a   *)
(* panic of its own callback.                                              *)
(***************************************************************************)
C19_InBatch(p) ==
    /\ kind = "blocking"
    /\ op[p] = "bulk"
    /\ pc[p] \in {"elem", "drift_wait", "seq_wait", "return"}

C19_Consecutive(p) ==
    \E k \in 0..Len(issued) :
        \A i \in 1..Len(ids[p]) :
            /\ k + i <= Len(issued)
            /\ issued[k + i].id = ids[p][i]

C19_BatchAtomicity ==
    /\ [](\A p \in Procs :
             /\ C19_InBatch(p) => lock = p
             /\ kind = "blocking" /\ op[p] = "bulk" => C19_Consecutive(p))
    /\ [][\A p \in Procs :
             C19_InBatch(p) =>
                 /\ pc'[p] \in {"elem", "drift_wait", "seq_wait", "return"} => lock' = p
                 /\ issued' # issued => ids'[p] = Append(ids[p], Last(issued').id)
                 /\ \A q \in Procs \ {p} :
                       /\ lock' # q
                       /\ pc[q] \in {"idle", "acquire", "backoff"}
                       /\ pc'[q] \in {"idle", "acquire", "backoff"}
                       /\ result'[q] # result[q] => result'[q].kind \in {"None", "Panic"}]_vars

\* a batch that has produced one id is inside a wait loop, calling the backoff
\* callback, while the other caller waits for the lock
C19_Witness ==
    \E p, q \in Procs :
        /\ p # q
        /\ C19_InBatch(p)
        /\ pc[p] \in {"drift_wait", "seq_wait"}
        /\ Len(ids[p]) = 1
        /\ pc[q] = "acquire"

(***************************************************************************)
(* C20  No lock held while backing off in the single-id path.  In          *)
(* try_next_id and next_id of both generators and in the cooperative       *)
(* next_id_bulk the lock is held for exactly one step: the caller holds it *)
(* only between taking it and its one reading of the clock, and has given  *)
(* it up when the callback runs, the task sleeps, or the next element of a *)
(* cooperative batch is due.  So another caller can take the lock and be   *)
(* issued an id meanwhile.                                                 *)
(***************************************************************************)
C20_SinglePath(p) == op[p] \in {"try", "next"} \/ (kind = "async" /\ op[p] = "bulk")

C20_LockPerStep ==
    /\ [](\A p \in Procs :
             C20_SinglePath(p) =>
                 /\ lock = p => pc[p] = "step"
                 /\ pc[p] \in {"idle", "acquire", "backoff"} => lock # p)
    /\ [][\A p \in Procs :
             C20_SinglePath(p) /\ ReadBy(p) =>
                 /\ lock' = 0
                 /\ pc'[p] \in {"idle", "acquire", "backoff"}]_vars

\* while a next_id call backs off for 2 ms, the step just taken, which read
\* last_timestamp itself, issued an id to the other caller
C20_Witness ==
    \E p, q \in Procs :
        /\ p # q
        /\ op[p] = "next"
        /\ pc[p] = "backoff"
        /\ wait[p] = 2
        /\ reading = last_timestamp
        /\ Len(issued) > 0
        /\ Last(issued).t = reading
        /\ result[q] = Ready(Last(issued).id)

(***************************************************************************)
(* C21  Bulk equals repeated single steps.  Take a blocking next_id_bulk   *)
(* holding the lock (so that no other caller acts on the state) and any    *)
(* reading t of the clock it makes.  next_id, fed the same readings, is at *)
(* that point in the state the batch is in, except that while the batch    *)
(* waits for the millisecond after a wrapped sequence next_id still has    *)
(* sequence == max_sequence.  The step of next_id on t and what the batch  *)
(* does on t agree: the same id is issued and the same (last_timestamp,    *)
(* sequence) is left; or the callback is called with the same duration; or *)
(* both fail on the same condition.                                        *)
(***************************************************************************)
C21_InBulk(p) ==
    /\ kind = "blocking"
    /\ op[p] = "bulk"
    /\ pc[p] \in {"elem", "drift_wait", "seq_wait"}
    /\ ReadBy(p)

\* the step try_next_id takes inside next_id on the reading of this transition
C21_Single(p) ==
    TryStep(last_timestamp, IF pc[p] = "seq_wait" THEN max_sequence ELSE sequence,
            reading', machine_id, epoch)

C21_Agrees(p) ==
    LET r == C21_Single(p)
    IN  CASE r.out.kind = "Ready" ->
                /\ issued' = Append(issued, Issue(r.out.id, reading'))
                /\ ids'[p] = Append(ids[p], r.out.id)
                /\ last_timestamp' = r.last_timestamp
                /\ sequence' = r.sequence
          [] r.out.kind = "Pending" ->
                /\ issued' = issued
                /\ pc'[p] \in {"drift_wait", "seq_wait"}
                /\ wait'[p] = r.out.wait
                /\ last_timestamp' = r.last_timestamp
          [] OTHER ->
                /\ issued' = issued
                /\ FatalGiven(p, r.out.err)
                /\ last_timestamp' = r.last_timestamp
                /\ sequence' = r.sequence

C21_BulkIsRepeatedSingle ==
    [][\A p \in Procs : C21_InBulk(p) => C21_Agrees(p)]_vars

\* the part of C21 that the code satisfies: every first reading of an element, and
\* every reading inside a wait loop that is not below last_timestamp
C21_WithoutRegressionInWait ==
    [][\A p \in Procs :
          C21_InBulk(p) /\ (pc[p] = "elem" \/ reading' >= last_timestamp)
              => C21_Agrees(p)]_vars

(***************************************************************************)
(* C22  Blocking and cooperative steps coincide.  On every step either     *)
(* generator takes under its lock, from state (last_timestamp, sequence)   *)
(* with clock reading t, machine id and epoch: the blocking try_next_id    *)
(* and the cooperative try_next_id, applied to these same arguments, give  *)
(* the same outcome (Ready id, Pending duration or error) and the same     *)
(* successor state, and that outcome and state are what the generator at   *)
(* hand returns and is left in.                                            *)
(***************************************************************************)
C22_Blocking == TryStep(last_timestamp, sequence, reading', machine_id, epoch)

C22_Cooperative == AsyncTryStep(last_timestamp, sequence, reading', machine_id, epoch)

C22_StepsCoincide ==
    [][\A p \in Procs :
          pc[p] = "step" /\ ReadBy(p) =>
              /\ C22_Cooperative = C22_Blocking
              /\ last_timestamp' = C22_Blocking.last_timestamp
              /\ sequence' = C22_Blocking.sequence
              /\ op[p] = "try" => result'[p] = C22_Cooperative.out]_vars

\* the cooperative try_next_id came back Pending with the largest tolerated drift,
\* from a state in which the sequence of the last millisecond was used up
C22_Witness ==
    /\ kind = "async"
    /\ sequence = max_sequence
    /\ reading = last_timestamp - CLOCK_BACKWARDS_TOLERANCE_MS
    /\ \E p \in Procs :
           op[p] = "try" /\ result[p] = Pending(CLOCK_BACKWARDS_TOLERANCE_MS)

(***************************************************************************)
(* C23  State invariant.  In every reachable state sequence is within      *)
(* 0..sequence_mask; no step ever lowers last_timestamp; and whenever the  *)
(* lock is free and not poisoned, (last_timestamp, sequence) is            *)
(* lexicographically at or above the (clock reading, sequence) of every id *)
(* issued so far.                                                          *)
(***************************************************************************)
C23_LexGeq(l, s, t, q) == l > t \/ (l = t /\ s >= q)

C23_SequenceInRange == sequence \in 0..sequence_mask

C23_AtRest == lock = 0 /\ ~poisoned

C23_AboveIssued ==
    \A i \in 1..Len(issued) :
        C23_LexGeq(last_timestamp, sequence, issued[i].t, sequence_of(issued[i].id))

C23_StateInvariant ==
    /\ [](C23_SequenceInRange /\ (C23_AtRest => C23_AboveIssued))
    /\ [][last_timestamp' >= last_timestamp]_vars

\* a batch of the blocking generator used up a millisecond, waited for the next one
\* with sequence already 0, issued there and returned: the lock is free again
C23_Witness ==
    /\ kind = "blocking"
    /\ C23_AtRest
    /\ Len(issued) = 3
    /\ sequence_of(issued[2].id) = sequence_mask
    /\ issued[3].t > issued[2].t
    /\ last_timestamp = issued[3].t
    /\ sequence = 0
    /\ \E p \in Procs : op[p] = "bulk" /\ result[p] = Returned /\ Len(ids[p]) = 2

(***************************************************************************)
(* C24  Poisoning after a failed batch.  A next_id_bulk call of the        *)
(* blocking generator that fails while it holds the lock (drift beyond the *)
(* tolerance, timestamp overflow, or a panicking callback, the latter      *)
(* possibly with sequence already reset to 0 and last_timestamp not        *)
(* advanced) poisons the mutex.  From then on the mutex stays poisoned, no *)
(* id is issued and the state is never touched: every try_next_id returns  *)
(* GeneratorPoisoned, every next_id and next_id_bulk panics.  Nothing else *)
(* poisons it: a failure of try_next_id or next_id leaves the mutex as it  *)
(* was and does not keep the lock.                                         *)
(***************************************************************************)
C24_Failed(p) == result'[p] # result[p] /\ result'[p].kind \in {"Err", "Panic"}

C24_BatchFailsUnderLock(p) ==
    kind = "blocking" /\ op[p] = "bulk" /\ lock = p /\ C24_Failed(p)

C24_Dead ==
    /\ poisoned'
    /\ UNCHANGED <<issued, last_timestamp, sequence>>
    /\ \A p \in Procs :
           /\ lock' # p
           /\ pc[p] = "acquire" /\ pc'[p] # "acquire" =>
                  IF op[p] = "try"
                  THEN result'[p] = Err("GeneratorPoisoned")
                  ELSE result'[p].kind = "Panic"

C24_PoisonedForGood ==
    [][/\ \A p \in Procs : C24_BatchFailsUnderLock(p) => poisoned' /\ lock' = 0
       /\ poisoned => C24_Dead
       /\ ~poisoned /\ poisoned' => \E p \in Procs : C24_BatchFailsUnderLock(p)
       /\ \A p \in Procs :
              op[p] \in {"try", "next"} /\ C24_Failed(p) =>
                  poisoned' = poisoned /\ lock' # p]_vars

\* a batch wrapped the sequence to 0, its callback panicked while it waited for the
\* next millisecond, and the try_next_id that followed came back GeneratorPoisoned
C24_Witness ==
    /\ poisoned
    /\ lock = 0
    /\ Len(issued) > 0
    /\ sequence_of(Last(issued).id) = max_sequence
    /\ last_timestamp = Last(issued).t
    /\ sequence = 0
    /\ \E p, q \in Procs :
           /\ op[p] = "bulk" /\ result[p] = Panic("on_pending")
           /\ op[q] = "try" /\ result[q] = Err("GeneratorPoisoned")

(***************************************************************************)
(* C25  No collision across machine ids.  Every id a generator issued has  *)
(* that generator's machine id in its machine-id field, so two generators  *)
(* of the same layout constructed with different machine ids never issue   *)
(* equal ids, whatever their epochs, the clock readings and the order of   *)
(* their steps.                                                            *)
(***************************************************************************)
C25_Carries(log, m) == \A i \in 1..Len(log) : machine_id_of(log[i].id) = m

C25_NoCollision ==
    /\ C25_Carries(issued, machine_id)
    /\ C25_Carries(peer.issued, peer.machine_id)
    /\ machine_id # peer.machine_id =>
           \A i \in 1..Len(issued), j \in 1..Len(peer.issued) :
               issued[i].id # peer.issued[j].id

\* generators with different machine ids and different epochs issued ids that agree
\* in the timestamp field and in the sequence, from different clock readings
C25_Witness ==
    /\ peer.kind # "none"
    /\ machine_id # peer.machine_id
    /\ epoch # peer.epoch
    /\ \E i \in 1..Len(issued), j \in 1..Len(peer.issued) :
           /\ timestamp_of(issued[i].id) = timestamp_of(peer.issued[j].id)
           /\ sequence_of(issued[i].id) = sequence_of(peer.issued[j].id)
           /\ issued[i].t # peer.issued[j].t

====
